---- MODULE Spec2Model ----
(***************************************************************************)
(* A model of the chat front end: the orchestrator (app.js), the status    *)
(* poller (statusManager.js), the chat panel (chatModule.js), the API      *)
(* client (apiService.js), the results renderer and the formatting helpers *)
(* (utils.js).  Every action is one run-to-completion step of the single   *)
(* UI thread: an event handler or the continuation of an await, up to the  *)
(* next await.  Text is a sequence of one-character strings, or of longer  *)
(* literal segments where the code concatenates a fixed literal.           *)
(*                                                                         *)
(* Time is counted in seconds by the timers themselves: each armed timer   *)
(* holds the seconds left until its callback, Tick lets one second pass,   *)
(* and a callback that is due runs before the next second passes.          *)
(* Left out: focus and scroll position of the chat elements, and what is   *)
(* written to the console.                                                 *)
(***************************************************************************)
EXTENDS Integers, Sequences, FiniteSets, TLC

\* ------------------------------------------------------------------ bounds
\* Accepted sendMessage calls in one run.
MaxSends == 2
\* ApiService.checkHealth calls started in one run.
MaxHealthCalls == 1
\* Largest retry budget a direct checkHealth(n) call is given.
MaxRetries == 3
\* Seconds the status poller is followed for: one interval and the start of
\* the next.
MaxSeconds == 31
\* Entries of a plan handed to the renderer.
MaxPlanLen == 3
\* Groups of an answer handed to the renderer.
MaxGroups == 2
\* Characters of a plan key handed to formatKey.
MaxKeyLen == 3
\* Characters of a text handed to escapeHtml.
MaxTextLen == 2

\* ------------------------------------------------------- program constants
\* Config.RETRY_ATTEMPTS
RETRY_ATTEMPTS == 3
\* Config.RETRY_DELAY, in seconds (1000 ms)
RETRY_DELAY == 1
\* Config.HEALTH_CHECK_INTERVAL, in seconds (30000 ms)
HEALTH_CHECK_INTERVAL == 30
\* the abort timeout of one health request, in seconds (5000 ms)
HEALTH_TIMEOUT == 5

\* ------------------------------------------------------------------- text
\* An optional value: <<>> is undefined, <<v>> is v.
None == <<>>
Some(v) == <<v>>
IsSome(o) == Len(o) > 0
Get(o) == o[1]

WhiteSpace == {" ", "\t", "\n"}

RECURSIVE TrimStart(_)
TrimStart(s) ==
    IF s # <<>> /\ Head(s) \in WhiteSpace THEN TrimStart(Tail(s)) ELSE s

RECURSIVE TrimEnd(_)
TrimEnd(s) ==
    IF s # <<>> /\ s[Len(s)] \in WhiteSpace
    THEN TrimEnd(SubSeq(s, 1, Len(s) - 1))
    ELSE s

\* a trim that removes nothing
TrimNothing(s) == s
\* String.prototype.trim
Trim(s) == TrimEnd(TrimStart(s))

\* The texts a user may put into the input field.
InputTexts == { <<" ", " ">>, <<" ", "h", "i", " ">>, <<"a", " ", "b">> }

\* ------------------------------------------------------------- utils.js
LowerLetters ==
    << "a", "b", "c", "d", "e", "f", "g", "h", "i", "j", "k", "l", "m",
       "n", "o", "p", "q", "r", "s", "t", "u", "v", "w", "x", "y", "z" >>
UpperLetters ==
    << "A", "B", "C", "D", "E", "F", "G", "H", "I", "J", "K", "L", "M",
       "N", "O", "P", "Q", "R", "S", "T", "U", "V", "W", "X", "Y", "Z" >>
DigitChars == << "0", "1", "2", "3", "4", "5", "6", "7", "8", "9" >>

Range(f) == { f[i] : i \in DOMAIN f }

\* the regular expression class \w
IsWordChar(c) ==
    c \in Range(LowerLetters) \cup Range(UpperLetters) \cup Range(DigitChars) \cup {"_"}

\* String.prototype.toUpperCase on one character
ToUpperCase(c) ==
    IF c \in Range(LowerLetters)
    THEN UpperLetters[CHOOSE i \in DOMAIN LowerLetters : LowerLetters[i] = c]
    ELSE c

\* key.replace(/_/g, ' ')
ReplaceUnderscores(key) ==
    [i \in DOMAIN key |-> IF key[i] = "_" THEN " " ELSE key[i]]

\* a replacement that upper-cases the first character of the text only
CapitalizeFirstOnly(s) ==
    [i \in DOMAIN s |-> IF i = 1 THEN ToUpperCase(s[i]) ELSE s[i]]
\* .replace(/\b\w/g, l => l.toUpperCase()): a word character at a word boundary
CapitalizeWords(s) ==
    [i \in DOMAIN s |->
        IF IsWordChar(s[i]) /\ (i = 1 \/ ~IsWordChar(s[i - 1]))
        THEN ToUpperCase(s[i])
        ELSE s[i]]

\* Utils.formatKey
FormatKey(key) == CapitalizeWords(ReplaceUnderscores(key))

\* the serialization of one character of a text node by innerHTML
EscapeChar(c) ==
    CASE c = "&" -> << "&", "a", "m", "p", ";" >>
      [] c = "<" -> << "&", "l", "t", ";" >>
      [] c = ">" -> << "&", "g", "t", ";" >>
      [] OTHER -> << c >>

RECURSIVE EscapeHtml(_)
\* Utils.escapeHtml: div.textContent = text; return div.innerHTML
EscapeHtml(text) ==
    IF text = <<>> THEN <<>> ELSE EscapeChar(Head(text)) \o EscapeHtml(Tail(text))

RECURSIVE Digits(_)
\* the decimal digits of a natural number
Digits(n) ==
    IF n < 10 THEN << DigitChars[n + 1] >>
    ELSE Digits(n \div 10) \o << DigitChars[(n % 10) + 1] >>

\* a group of exactly three digits
ThreeDigits(n) ==
    << DigitChars[(n \div 100) + 1], DigitChars[((n \div 10) % 10) + 1],
       DigitChars[(n % 10) + 1] >>

RECURSIVE FormatNumber(_)
\* Utils.formatNumber: Intl.NumberFormat('ms-MY') groups the digits by three
FormatNumber(n) ==
    IF n < 1000 THEN Digits(n)
    ELSE FormatNumber(n \div 1000) \o << "," >> \o ThreeDigits(n % 1000)

\* ------------------------------------------------- results renderer
\* A JSON value of the answer: a text or a number.
Str(s) == [t |-> "str", v |-> s]
Num(n) == [t |-> "num", v |-> n]
\* String(value), as textContent = value converts it
ToText(val) == IF val.t = "num" THEN Digits(val.v) ELSE val.v

CountKey == << "C", "O", "U", "N", "T" >>
AnyValue == Str(<< "A", "n", "y" >>)

\* item.COUNT of a row given as its ordered <<key, value>> entries
CountOf(item) ==
    LET hits == { i \in DOMAIN item : item[i][1] = CountKey }
    IN  IF hits = {} THEN None ELSE Some(item[CHOOSE i \in hits : TRUE][2])

\* a filter that keeps every entry
SelectPlanAll(entries) == entries
\* Array.prototype.filter
RECURSIVE SelectPlan(_)
SelectPlan(entries) ==
    IF entries = <<>> THEN <<>>
    ELSE IF Head(entries)[2] # AnyValue
         THEN << Head(entries) >> \o SelectPlan(Tail(entries))
         ELSE SelectPlan(Tail(entries))

\* ResultsModule.generatePlanCard
GeneratePlanCard(plan) ==
    LET kept == SelectPlan(plan)
    IN  [ block |-> "plan",
          items |-> [i \in DOMAIN kept |->
                        [ label |-> FormatKey(kept[i][1]),
                          value |-> EscapeHtml(ToText(kept[i][2])) ]] ]

\* one row of a group: the first key's value and the COUNT field
RenderRow(item) ==
    [ value |-> IF item = <<>> THEN << "undefined" >>
                ELSE EscapeHtml(ToText(item[1][2])),
      count |-> IF IsSome(CountOf(item)) /\ Get(CountOf(item)).t = "num"
                THEN FormatNumber(Get(CountOf(item)).v)
                ELSE << "NaN" >> ]

\* ResultsModule.generateGroupsCard
GenerateGroupsCard(groups) ==
    [ block |-> "groups",
      groups |-> [g \in DOMAIN groups |->
                    [ title |-> EscapeHtml(groups[g].label),
                      rows |-> [r \in DOMAIN groups[g].data |->
                                   RenderRow(groups[g].data[r])] ]] ]

\* whether displayResults raises a TypeError on this response: answer.total
\* of an undefined answer, Object.entries of an undefined plan
RenderRaises(data) == ~IsSome(data.answer) \/ ~IsSome(data.plan)

\* the markup displayResults builds for a response it does not raise on
RenderHtml(data) ==
    LET answer == Get(data.answer)
    IN  (IF IsSome(answer.total)
         THEN << [block |-> "total", text |-> FormatNumber(Get(answer.total))] >>
         ELSE <<>>)
        \o << GeneratePlanCard(Get(data.plan)) >>
        \o (IF IsSome(answer.groups) /\ Len(Get(answer.groups)) > 0
            THEN << GenerateGroupsCard(Get(answer.groups)) >>
            ELSE <<>>)

\* ------------------------------------------------------------------ state
VARIABLES
    dom,              \* ids of the elements the document holds
    readyState,       \* document.readyState
    listener,         \* a DOMContentLoaded listener is registered and waiting
    started,          \* app.init() has run and window.ChatModule is set
    initLog,          \* the modules whose init was invoked, in order
    container,        \* ChatModule.container is an element
    input,            \* ChatModule.input is an element
    sendButton,       \* ChatModule.sendButton is an element
    isLoading,        \* ChatModule.isLoading
    inputValue,       \* input.value
    inputDisabled,    \* input.disabled
    buttonDisabled,   \* sendButton.disabled
    buttonHtml,       \* sendButton.innerHTML
    messages,         \* the children of the chat container
    queries,          \* the ApiService.sendQuery calls, in call order
    indicator,        \* StatusManager.indicator is an element
    indicatorText,    \* indicator.textContent
    indicatorClass,   \* indicator.className
    health,           \* the ApiService.checkHealth calls, in call order
    intervalTimer,    \* seconds until the setInterval timer fires, -1: not set
    resultsContainer, \* ResultsModule.container is an element
    resultsHtml,      \* container.innerHTML of the results surface
    displayed,        \* the response the results surface was last rendered from
    lastCall          \* how the latest sendMessage or handleKeyPress call ended

orchVars == << dom, readyState, listener, started, initLog >>
refVars == << container, input, sendButton, indicator, resultsContainer >>
chatVars ==
    << isLoading, inputValue, inputDisabled, buttonDisabled, buttonHtml, messages >>
statusVars == << indicatorText, indicatorClass >>
resultVars == << resultsHtml, displayed >>
vars ==
    << dom, readyState, listener, started, initLog, container, input, sendButton,
       isLoading, inputValue, inputDisabled, buttonDisabled, buttonHtml, messages,
       queries, indicator, indicatorText, indicatorClass, health, intervalTimer,
       resultsContainer, resultsHtml, displayed, lastCall >>

ElementIds ==
    { "chatContainer", "messageInput", "sendButton", "statusIndicator",
      "resultsContent" }

\* The documents the page may be served with: the complete one, and one
\* that lacks the send button.
Documents == { ElementIds, ElementIds \ {"sendButton"} }

\* ---------------------------------------------------------- status poller
\* statusConfig of StatusManager.updateStatus; the emoji each text starts
\* with is left out
StatusConfig(status) ==
    CASE status = "online" ->
            Some([text |-> "Backend Online", class |-> "status-online"])
      [] status = "offline" ->
            Some([text |-> "Backend Offline", class |-> "status-offline"])
      [] status = "checking" ->
            Some([text |-> "Checking...", class |-> "status-checking"])
      [] OTHER -> None

\* an update that does not overwrite a status of offline
UpdateStatusKeepsOffline(attached, status) ==
    IF attached /\ IsSome(StatusConfig(status))
       /\ indicatorText # Get(StatusConfig("offline")).text
    THEN /\ indicatorText' = Get(StatusConfig(status)).text
         /\ indicatorClass' = "status-indicator " \o Get(StatusConfig(status)).class
    ELSE UNCHANGED statusVars
\* an update that writes the text and leaves the style class as it is
UpdateStatusTextOnly(attached, status) ==
    IF attached /\ IsSome(StatusConfig(status))
    THEN /\ indicatorText' = Get(StatusConfig(status)).text
         /\ UNCHANGED indicatorClass
    ELSE UNCHANGED statusVars
\* StatusManager.updateStatus, given whether the indicator is attached
UpdateStatus(attached, status) ==
    IF attached /\ IsSome(StatusConfig(status))
    THEN /\ indicatorText' = Get(StatusConfig(status)).text
         /\ indicatorClass' = "status-indicator " \o Get(StatusConfig(status)).class
    ELSE UNCHANGED statusVars

\* ------------------------------------------------------------- chat panel
ConfirmationText ==
    << "Saya telah menganalisis data berdasarkan pertanyaan anda. Lihat keputusan di sebelah kanan." >>
ErrorPrefix == << "Maaf, terdapat ralat: " >>

\* a panel that puts the newest message first
AddMessageOnTop(content, sender) ==
    IF ~container THEN messages
    ELSE << [content |-> content, sender |-> sender] >> \o messages
\* a panel that appends every message twice
AddMessageTwice(content, sender) ==
    IF ~container THEN messages
    ELSE messages \o << [content |-> content, sender |-> sender],
                        [content |-> content, sender |-> sender] >>
\* ChatModule.addMessage
AddMessage(content, sender) ==
    IF ~container THEN messages
    ELSE Append(messages, [content |-> content, sender |-> sender])

\* a flag that is never raised
LoadingFlagNeverSet(loading) == FALSE
\* setLoading: this.isLoading = loading
LoadingFlag(loading) == loading

\* ChatModule.setLoading
SetLoading(loading) ==
    /\ isLoading' = LoadingFlag(loading)
    /\ IF sendButton /\ input
       THEN /\ buttonHtml' = IF loading THEN "loading" ELSE "Hantar"
            /\ buttonDisabled' = loading
            /\ inputDisabled' = loading
       ELSE UNCHANGED << buttonHtml, buttonDisabled, inputDisabled >>

\* the early return of sendMessage left out: no call is refused
RefusesNever == FALSE
\* sendMessage: if (this.isLoading) return
Refuses == isLoading

\* a sendQuery call that sends its text without the white space in it
NewQuerySquashed(text) ==
    [ text |-> SelectSeq(text, LAMBDA c : c \notin WhiteSpace),
      phase |-> "fetch", requests |-> 1, error |-> None,
      body |-> None, data |-> None ]
\* a sendQuery call that has issued its request
NewQuery(text) ==
    [ text |-> text, phase |-> "fetch", requests |-> 1, error |-> None,
      body |-> None, data |-> None ]

\* ChatModule.sendMessage up to its await
DoSendMessage ==
    IF Refuses
    THEN /\ lastCall' = "refused_busy"
         /\ UNCHANGED << chatVars, queries >>
    ELSE IF ~input
    THEN \* this.input.value of null raises a TypeError
         /\ lastCall' = "threw"
         /\ UNCHANGED << chatVars, queries >>
    ELSE IF Trim(inputValue) = <<>>
    THEN /\ lastCall' = "refused_empty"
         /\ UNCHANGED << chatVars, queries >>
    ELSE /\ Len(queries) < MaxSends
         /\ messages' = AddMessage(Trim(inputValue), "user")
         /\ inputValue' = <<>>
         /\ SetLoading(TRUE)
         /\ queries' = Append(queries, NewQuery(Trim(inputValue)))
         /\ lastCall' = "accepted"

\* the user edits the input field
TypeInput(text) ==
    /\ started
    /\ input
    /\ ~inputDisabled
    /\ inputValue' = text
    /\ UNCHANGED << orchVars, refVars, isLoading, inputDisabled, buttonDisabled,
                    buttonHtml, messages, queries, statusVars, health,
                    intervalTimer, resultVars, lastCall >>

\* ChatModule.sendMessage, called by the send button or a script
SendMessage ==
    /\ started
    /\ DoSendMessage
    /\ UNCHANGED << orchVars, refVars, statusVars, health, intervalTimer,
                    resultVars >>

Keys == { "Enter", "a" }

\* ChatModule.handleKeyPress
HandleKeyPress(key) ==
    /\ started
    /\ IF key = "Enter" /\ ~isLoading
       THEN DoSendMessage
       ELSE /\ lastCall' = "key_ignored"
            /\ UNCHANGED << chatVars, queries >>
    /\ UNCHANGED << orchVars, refVars, statusVars, health, intervalTimer,
                    resultVars >>

\* -------------------------------------------------- API client: sendQuery
NetworkError == [name |-> "TypeError", message |-> << "Failed to fetch" >>]
ParseError == [name |-> "SyntaxError", message |-> << "Unexpected token" >>]
AbortError == [name |-> "AbortError", message |-> << "The user aborted a request." >>]
RenderError ==
    [name |-> "TypeError", message |-> << "Cannot read properties of undefined" >>]
\* new Error(`HTTP error! status: ${response.status}`)
AskHttpError(status) ==
    [name |-> "Error", message |-> << "HTTP error! status: " >> \o Digits(status)]
\* an error that hides the text the backend sent
AppErrorGeneric(text) == [name |-> "Error", message |-> << "Request failed" >>]
\* new Error(data.error)
AppError(text) == [name |-> "Error", message |-> text]

\* response.ok
Ok(status) == status \in 200..299

\* the HTTP statuses the backend answers /ask with
AskStatuses == { 200, 500 }

Gender == << "g", "e", "n", "d", "e", "r" >>
State == << "s", "t", "a", "t", "e" >>
SamplePlan == << << Gender, Str(<< "M", "a", "l", "e" >>) >>, << State, AnyValue >> >>
SampleAnswer ==
    [ total |-> Some(15000),
      groups |-> Some(<< [ label |-> << "B", "y", " ", "S", "t", "a", "t", "e" >>,
                           data |-> << << << State, Str(<< "S", "e", "l" >>) >>,
                                          << CountKey, Num(9000) >> >> >> ] >>) ]

\* the parsed bodies the backend answers /ask with: a result, an
\* application-level error, an error with an empty text, a body without answer
AskBodies ==
    { [error |-> None, plan |-> Some(SamplePlan), answer |-> Some(SampleAnswer)],
      [error |-> Some(<< "b", "a", "d" >>), plan |-> None, answer |-> None],
      [error |-> Some(<<>>), plan |-> None, answer |-> None],
      [error |-> None, plan |-> Some(SamplePlan), answer |-> None] }

\* the truth value JavaScript gives data.error
Truthy(field) == IsSome(field) /\ Get(field) # <<>>

\* a failure handler that issues the request again
AskFailedRetry(q, err) == [q EXCEPT !.phase = "fetch", !.requests = @ + 1]
\* sendQuery has no try: a failure of its request rejects the call at once
AskFailed(q, err) == [q EXCEPT !.phase = "raised", !.error = Some(err)]

\* sendQuery after `await fetch` resolved with this status
AskHeaders(q, status) ==
    IF ~Ok(status) THEN AskFailed(q, AskHttpError(status))
    ELSE [q EXCEPT !.phase = "json"]

\* sendQuery after `await response.json()` resolved with this body
AskBody(q, body) ==
    IF Truthy(body.error)
    THEN AskFailed([q EXCEPT !.body = Some(body)], AppError(Get(body.error)))
    ELSE [q EXCEPT !.phase = "returned", !.body = Some(body), !.data = Some(body)]

\* a finally block that runs on the success path only
FinallyLoadingSuccessOnly(path) == IF path = "try" THEN FALSE ELSE isLoading
\* sendMessage: finally { this.setLoading(false) }
FinallyLoading(path) == FALSE

\* a renderer that adds its markup to what the surface shows
DisplayResultsAppends(attached, data) ==
    IF ~attached \/ ~IsSome(data)
    THEN UNCHANGED resultVars
    ELSE /\ resultsHtml' = resultsHtml \o RenderHtml(Get(data))
         /\ displayed' = data
\* ResultsModule.displayResults with a response it does not raise on, given
\* whether the output surface is attached: container.innerHTML = html
DisplayResults(attached, data) ==
    IF ~attached \/ ~IsSome(data)
    THEN UNCHANGED resultVars
    ELSE /\ resultsHtml' = RenderHtml(Get(data))
         /\ displayed' = data

\* a catch block that reports nothing in the chat
CatchPathSilent(err) ==
    /\ UpdateStatus(indicator, "offline")
    /\ SetLoading(FinallyLoading("catch"))
    /\ UNCHANGED << inputValue, messages, resultVars >>
\* a catch block that also empties the results surface
CatchPathClearsResults(err) ==
    /\ messages' = AddMessage(ErrorPrefix \o err.message, "bot")
    /\ UpdateStatus(indicator, "offline")
    /\ SetLoading(FinallyLoading("catch"))
    /\ resultsHtml' = <<>>
    /\ UNCHANGED << inputValue, displayed >>
\* sendMessage: the catch block, then the finally block
CatchPath(err) ==
    /\ messages' = AddMessage(ErrorPrefix \o err.message, "bot")
    /\ UpdateStatus(indicator, "offline")
    /\ SetLoading(FinallyLoading("catch"))
    /\ UNCHANGED << inputValue, resultVars >>

\* sendMessage after its await: call i of sendQuery is now q
Continue(i, q) ==
    /\ queries' = [queries EXCEPT ![i] = q]
    /\ IF q.phase = "raised" THEN CatchPath(Get(q.error))
       ELSE IF q.phase = "returned"
       THEN IF resultsContainer /\ RenderRaises(Get(q.data))
            THEN CatchPath(RenderError)
            ELSE /\ DisplayResults(resultsContainer, q.data)
                 /\ messages' = AddMessage(ConfirmationText, "bot")
                 /\ SetLoading(FinallyLoading("try"))
                 /\ UNCHANGED << inputValue, statusVars >>
       ELSE UNCHANGED << chatVars, statusVars, resultVars >>
    /\ UNCHANGED << orchVars, refVars, health, intervalTimer, lastCall >>

\* the request of sendQuery call i fails: no connection
AskFetchRejects(i) ==
    /\ i \in DOMAIN queries
    /\ queries[i].phase = "fetch"
    /\ Continue(i, AskFailed(queries[i], NetworkError))

\* the response headers of sendQuery call i arrive
AskFetchResolves(i, status) ==
    /\ i \in DOMAIN queries
    /\ queries[i].phase = "fetch"
    /\ Continue(i, AskHeaders(queries[i], status))

\* the body of the response of sendQuery call i is not JSON
AskJsonRejects(i) ==
    /\ i \in DOMAIN queries
    /\ queries[i].phase = "json"
    /\ Continue(i, AskFailed(queries[i], ParseError))

\* the body of the response of sendQuery call i is parsed
AskJsonResolves(i, body) ==
    /\ i \in DOMAIN queries
    /\ queries[i].phase = "json"
    /\ Continue(i, AskBody(queries[i], body))

\* ------------------------------------------------ API client: checkHealth
\* new Error(`HTTP ${response.status}`)
HealthHttpError(status) == [name |-> "Error", message |-> << "HTTP " >> \o Digits(status)]

\* the HTTP statuses the backend answers /health with
HealthStatuses == { 200, 503 }
\* the parsed bodies the backend answers /health with
HealthBodies == { "healthy", "degraded" }

NoTimer == -1

\* checkHealth(retries) up to its await: arm the abort timer, issue the request
\*   caller     who awaits the call: the status poller or a direct caller
\*   budget     the retries argument of the outermost call
\*   retries    the retries parameter of the innermost frame
\*   requests   the requests issued so far
\*   abortTimer seconds until controller.abort() of the current request
\*   delayTimer seconds until the retry delay resolves
\*   waited     seconds spent in the latest retry delay
\*   failed     the attempts that have failed
\*   error      the error the innermost frame caught, or the call rejects with
\*   fault      what made the latest failed attempt fail
\*   body       the body the backend served to the attempt that succeeded
\*   result     the value the call resolved with
NewHealth(caller, n) ==
    [ caller |-> caller, budget |-> n, retries |-> n, phase |-> "fetch",
      requests |-> 1, abortTimer |-> HEALTH_TIMEOUT, delayTimer |-> NoTimer,
      waited |-> 0, failed |-> 0, error |-> None, fault |-> "none",
      body |-> None, result |-> None ]

\* a retry test that allows one retry too many
MayRetryOnceMore(retries) == retries >= 0
\* checkHealth: if (retries > 0)
MayRetry(retries) == retries > 0

\* a retry that does not wait
RetryDelayNone == RETRY_DELAY - RETRY_DELAY
\* checkHealth: setTimeout(resolve, Config.RETRY_DELAY)
RetryDelay == RETRY_DELAY

\* checkHealth: the catch block, entered with the failure of the attempt
HealthCaught(c, err) ==
    IF MayRetry(c.retries)
    THEN [c EXCEPT !.phase = "delay", !.abortTimer = NoTimer,
                   !.delayTimer = RetryDelay, !.waited = 0,
                   !.failed = @ + 1, !.error = Some(err)]
    ELSE [c EXCEPT !.phase = "raised", !.abortTimer = NoTimer,
                   !.failed = @ + 1, !.error = Some(err)]

\* checkHealth after `await fetch` resolved: clearTimeout, then the status test
HealthHeaders(c, status) ==
    IF ~Ok(status) THEN HealthCaught(c, HealthHttpError(status))
    ELSE [c EXCEPT !.phase = "body", !.abortTimer = NoTimer]

\* a success that is followed by one more attempt
HealthReturnsAndRetries(c, body) ==
    [c EXCEPT !.phase = "fetch", !.requests = @ + 1, !.abortTimer = HEALTH_TIMEOUT]
\* checkHealth: return await response.json()
HealthReturns(c, body) ==
    [c EXCEPT !.phase = "returned", !.result = Some(body)]

\* checkHealth: return ApiService.checkHealth(retries - 1), after the delay
HealthRetry(c) ==
    [c EXCEPT !.phase = "fetch", !.retries = @ - 1, !.requests = @ + 1,
              !.abortTimer = HEALTH_TIMEOUT, !.delayTimer = NoTimer,
              !.error = None]

\* a poll cycle that reports the backend online however its check ended
PollerContinuesAlwaysOnline(c) ==
    IF c.caller = "poller" /\ c.phase \in { "returned", "raised" }
    THEN UpdateStatus(indicator, "online")
    ELSE UNCHANGED statusVars
\* StatusManager.checkHealth after its await, when the call has ended as c
PollerContinues(c) ==
    IF c.caller = "poller" /\ c.phase = "returned"
    THEN UpdateStatus(indicator, "online")
    ELSE IF c.caller = "poller" /\ c.phase = "raised"
    THEN UpdateStatus(indicator, "offline")
    ELSE UNCHANGED statusVars

\* a failed poll cycle that takes the interval timer down with it
HealthStepStopsPolling(i, c) ==
    /\ health' = [health EXCEPT ![i] = c]
    /\ PollerContinues(c)
    /\ intervalTimer' = IF c.caller = "poller" /\ c.phase = "raised"
                        THEN NoTimer ELSE intervalTimer
    /\ UNCHANGED << orchVars, refVars, chatVars, queries, resultVars, lastCall >>
\* call i of checkHealth takes a step to c
HealthStep(i, c) ==
    /\ health' = [health EXCEPT ![i] = c]
    /\ PollerContinues(c)
    /\ UNCHANGED << orchVars, refVars, chatVars, queries, intervalTimer,
                    resultVars, lastCall >>

\* the request of call i fails: no connection
HealthFetchRejects(i) ==
    /\ i \in DOMAIN health
    /\ health[i].phase = "fetch"
    /\ HealthStep(i, HealthCaught([health[i] EXCEPT !.fault = "network"],
                                  NetworkError))

\* the response headers of call i arrive
HealthFetchResolves(i, status) ==
    /\ i \in DOMAIN health
    /\ health[i].phase = "fetch"
    /\ HealthStep(i, HealthHeaders([health[i] EXCEPT
                                       !.fault = IF Ok(status) THEN @ ELSE "http"],
                                   status))

\* the abort timer of call i fires: the request is aborted
AbortTimerFires(i) ==
    /\ i \in DOMAIN health
    /\ health[i].phase = "fetch"
    /\ health[i].abortTimer = 0
    /\ HealthStep(i, HealthCaught([health[i] EXCEPT !.fault = "timeout"],
                                  AbortError))

\* the body of the response of call i is not JSON
HealthBodyRejects(i) ==
    /\ i \in DOMAIN health
    /\ health[i].phase = "body"
    /\ HealthStep(i, HealthCaught([health[i] EXCEPT !.fault = "parse"],
                                  ParseError))

\* the body of the response of call i is parsed
HealthBodyResolves(i, body) ==
    /\ i \in DOMAIN health
    /\ health[i].phase = "body"
    /\ HealthStep(i, HealthReturns([health[i] EXCEPT !.body = Some(body)], body))

\* the retry delay of call i is over
RetryDelayFires(i) ==
    /\ i \in DOMAIN health
    /\ health[i].phase = "delay"
    /\ health[i].delayTimer = 0
    /\ HealthStep(i, HealthRetry(health[i]))

\* ------------------------------------------------------------------- time
\* one timer after a second
Elapse(t) == IF t > 0 THEN t - 1 ELSE t

Min(a, b) == IF a < b THEN a ELSE b

\* a timer callback is due: it runs before the clock moves on
TimerDue ==
    \/ intervalTimer = 0
    \/ \E i \in DOMAIN health : health[i].abortTimer = 0 \/ health[i].delayTimer = 0

\* a second passes and a watchdog gives up on the query of the chat panel
TickWithQueryTimeout ==
    /\ ~TimerDue
    /\ intervalTimer' = Elapse(intervalTimer)
    /\ health' = [i \in DOMAIN health |->
                    [health[i] EXCEPT
                        !.abortTimer = Elapse(@),
                        !.delayTimer = Elapse(@),
                        !.waited = IF health[i].phase = "delay"
                                   THEN Min(@ + 1, RETRY_DELAY) ELSE @]]
    /\ isLoading' = FALSE
    /\ UNCHANGED << orchVars, refVars, inputValue, inputDisabled, buttonDisabled,
                    buttonHtml, messages, queries, statusVars, resultVars,
                    lastCall >>
\* a second passes
Tick ==
    /\ ~TimerDue
    /\ intervalTimer' = Elapse(intervalTimer)
    /\ health' = [i \in DOMAIN health |->
                    [health[i] EXCEPT
                        !.abortTimer = Elapse(@),
                        !.delayTimer = Elapse(@),
                        !.waited = IF health[i].phase = "delay"
                                   THEN Min(@ + 1, RETRY_DELAY) ELSE @]]
    /\ UNCHANGED << orchVars, refVars, chatVars, queries, statusVars,
                    resultVars, lastCall >>

\* ---------------------------------------------- status poller: the cycles
\* a poll cycle that starts only when no earlier one is pending
PollerCheckHealthUnlessPending(attached) ==
    IF \E i \in DOMAIN health : health[i].phase \notin { "returned", "raised" }
    THEN UNCHANGED << statusVars, health >>
    ELSE /\ UpdateStatus(attached, "checking")
         /\ health' = Append(health, NewHealth("poller", RETRY_ATTEMPTS))
\* StatusManager.checkHealth up to its await: updateStatus('checking'), then
\* ApiService.checkHealth() with the default retry budget
PollerCheckHealth(attached) ==
    /\ UpdateStatus(attached, "checking")
    /\ health' = Append(health, NewHealth("poller", RETRY_ATTEMPTS))

\* a timer that backs off to twice the period
IntervalPeriodBackedOff == HEALTH_CHECK_INTERVAL + HEALTH_CHECK_INTERVAL
\* setInterval(..., Config.HEALTH_CHECK_INTERVAL): the period of every round
IntervalPeriod == HEALTH_CHECK_INTERVAL

\* the interval timer fires, () => this.checkHealth(), and is armed again
IntervalFires ==
    /\ intervalTimer = 0
    /\ intervalTimer' = IntervalPeriod
    /\ PollerCheckHealth(indicator)
    /\ UNCHANGED << orchVars, refVars, chatVars, queries, resultVars, lastCall >>

\* ----------------------------------------------------------- orchestrator
Modules == << "StatusManager", "ChatModule", "ResultsModule" >>

\* ChatbotApp.initializeModules: StatusManager.init, ChatModule.init and
\* ResultsModule.init, none of which raises
InitializeModules ==
    /\ initLog' = initLog \o Modules
    /\ indicator' = ("statusIndicator" \in dom)
    /\ PollerCheckHealth("statusIndicator" \in dom)
    /\ intervalTimer' = IntervalPeriod
    /\ container' = ("chatContainer" \in dom)
    /\ input' = ("messageInput" \in dom)
    /\ sendButton' = ("sendButton" \in dom)
    /\ resultsContainer' = ("resultsContent" \in dom)

\* app.init(), the last statement but one of app.js
AppInit ==
    /\ ~started
    /\ started' = TRUE
    /\ IF readyState = "loading"
       THEN /\ listener' = TRUE
            /\ UNCHANGED << initLog, refVars, statusVars, health, intervalTimer >>
       ELSE /\ InitializeModules
            /\ UNCHANGED listener
    /\ UNCHANGED << dom, readyState, chatVars, queries, resultVars, lastCall >>

\* the document has been parsed
DomContentLoaded ==
    /\ readyState = "loading"
    /\ readyState' = "interactive"
    /\ listener' = FALSE
    /\ IF listener
       THEN InitializeModules
       ELSE UNCHANGED << initLog, refVars, statusVars, health, intervalTimer >>
    /\ UNCHANGED << dom, started, chatVars, queries, resultVars, lastCall >>

\* ---------------------------------------------------------- specification
InitIn(documents) ==
    /\ dom \in documents
    /\ readyState \in { "loading", "interactive" }
    /\ listener = FALSE
    /\ started = FALSE
    /\ initLog = <<>>
    /\ container = FALSE
    /\ input = FALSE
    /\ sendButton = FALSE
    /\ isLoading = FALSE
    /\ inputValue = <<>>
    /\ inputDisabled = FALSE
    /\ buttonDisabled = FALSE
    /\ buttonHtml = "Hantar"
    /\ messages = <<>>
    /\ queries = <<>>
    /\ indicator = FALSE
    /\ indicatorText = ""
    /\ indicatorClass = ""
    /\ health = <<>>
    /\ intervalTimer = NoTimer
    /\ resultsContainer = FALSE
    /\ resultsHtml = <<>>
    /\ displayed = None
    /\ lastCall = "none"

Init == InitIn(Documents)

\* The page while no timer fires: the orchestrator, the chat panel, the first
\* poll cycle and the answers of the backend.
Next ==
    \/ AppInit
    \/ DomContentLoaded
    \/ \E text \in InputTexts : TypeInput(text)
    \/ SendMessage
    \/ \E key \in Keys : HandleKeyPress(key)
    \/ \E i \in 1..MaxSends : AskFetchRejects(i)
    \/ \E i \in 1..MaxSends, status \in AskStatuses : AskFetchResolves(i, status)
    \/ \E i \in 1..MaxSends : AskJsonRejects(i)
    \/ \E i \in 1..MaxSends, body \in AskBodies : AskJsonResolves(i, body)
    \/ \E i \in 1..MaxHealthCalls : HealthFetchRejects(i)
    \/ \E i \in 1..MaxHealthCalls, status \in HealthStatuses :
          HealthFetchResolves(i, status)
    \/ \E i \in 1..MaxHealthCalls : HealthBodyRejects(i)
    \/ \E i \in 1..MaxHealthCalls, body \in HealthBodies : HealthBodyResolves(i, body)

Spec == Init /\ [][Next]_vars

\* a caller other than the status poller calls ApiService.checkHealth(n)
CallCheckHealth(n) ==
    /\ Len(health) < MaxHealthCalls
    /\ health' = Append(health, NewHealth("direct", n))
    /\ UNCHANGED << orchVars, refVars, chatVars, queries, statusVars,
                    intervalTimer, resultVars, lastCall >>

InitApi ==
    /\ Init
    /\ dom = ElementIds
    /\ readyState = "loading"

\* The API client alone: checkHealth(n) calls, the answers of the backend to
\* them, their timers and the clock.
NextApi ==
    \/ \E n \in 0..MaxRetries : CallCheckHealth(n)
    \/ \E i \in 1..MaxHealthCalls : HealthFetchRejects(i)
    \/ \E i \in 1..MaxHealthCalls, status \in HealthStatuses :
          HealthFetchResolves(i, status)
    \/ \E i \in 1..MaxHealthCalls : AbortTimerFires(i)
    \/ \E i \in 1..MaxHealthCalls : HealthBodyRejects(i)
    \/ \E i \in 1..MaxHealthCalls, body \in HealthBodies : HealthBodyResolves(i, body)
    \/ \E i \in 1..MaxHealthCalls : RetryDelayFires(i)
    \/ Tick

SpecApi == InitApi /\ [][NextApi]_vars

\* the seconds since the status poller was initialised: the interval timer
\* has been armed once per poll cycle
Elapsed ==
    IF intervalTimer = NoTimer THEN 0
    ELSE HEALTH_CHECK_INTERVAL * Len(health) - intervalTimer

\* a second passes, within the time the poller is followed for
PollerTick ==
    /\ Elapsed < MaxSeconds
    /\ Tick

InitPoller ==
    /\ Init
    /\ dom = ElementIds
    /\ readyState = "interactive"

\* The status poller over time: its poll cycles, the answers of the backend
\* to their requests, the timers and the clock, next to a chat panel whose
\* queries find the backend unreachable.
NextPoller ==
    \/ AppInit
    \/ IntervalFires
    \/ \E i \in DOMAIN health : HealthFetchRejects(i)
    \/ \E i \in DOMAIN health, status \in HealthStatuses :
          HealthFetchResolves(i, status)
    \/ \E i \in DOMAIN health : AbortTimerFires(i)
    \/ \E i \in DOMAIN health : HealthBodyRejects(i)
    \/ \E i \in DOMAIN health, body \in HealthBodies : HealthBodyResolves(i, body)
    \/ \E i \in DOMAIN health : RetryDelayFires(i)
    \/ PollerTick
    \/ TypeInput(<< "h", "i" >>)
    \/ SendMessage
    \/ \E key \in Keys : HandleKeyPress(key)
    \/ \E i \in DOMAIN queries : AskFetchRejects(i)

SpecPoller == InitPoller /\ [][NextPoller]_vars

\* the arguments updateStatus is called with: the three statuses of its
\* table and one that is not in it
StatusArgs == { "online", "offline", "checking", "unknown" }

\* a caller other than the poller and the chat panel calls
\* StatusManager.updateStatus(status)
CallUpdateStatus(status) ==
    /\ started
    /\ UpdateStatus(indicator, status)
    /\ UNCHANGED << orchVars, refVars, chatVars, queries, health, intervalTimer,
                    resultVars, lastCall >>

\* The status indicator and its writers while no timer fires: the
\* orchestrator, updateStatus calls with any argument, the first poll cycle,
\* and a chat panel whose queries find the backend unreachable.
NextStatus ==
    \/ AppInit
    \/ DomContentLoaded
    \/ \E status \in StatusArgs : CallUpdateStatus(status)
    \/ TypeInput(<< "h", "i" >>)
    \/ SendMessage
    \/ \E i \in DOMAIN queries : AskFetchRejects(i)
    \/ \E i \in DOMAIN health : HealthFetchRejects(i)
    \/ \E i \in DOMAIN health, status \in HealthStatuses :
          HealthFetchResolves(i, status)
    \/ \E i \in DOMAIN health : HealthBodyRejects(i)
    \/ \E i \in DOMAIN health, body \in HealthBodies : HealthBodyResolves(i, body)

SpecStatus == Init /\ [][NextStatus]_vars

\* ------------------------------------------- the orchestrator, inits raising
\* initializeModules runs the inits inside one try block.  Raising is the
\* position of the first module whose init raises, 0 when none does; an init
\* that raises does so on entry, before it has changed anything.
Raisings == 0..Len(Modules)

\* the init of module m was invoked and returned
Completes(m, raising) == raising = 0 \/ m < raising

\* the modules whose init is invoked: forEach stops at the one that raises
Invoked(raising) ==
    IF raising = 0 THEN Modules ELSE SubSeq(Modules, 1, raising)

\* ChatbotApp.initializeModules when the init of module `raising` raises
InitializeModulesRaising(raising) ==
    /\ initLog' = initLog \o Invoked(raising)
    /\ IF Completes(1, raising)
       THEN /\ indicator' = ("statusIndicator" \in dom)
            /\ PollerCheckHealth("statusIndicator" \in dom)
            /\ intervalTimer' = IntervalPeriod
       ELSE UNCHANGED << indicator, statusVars, health, intervalTimer >>
    /\ IF Completes(2, raising)
       THEN /\ container' = ("chatContainer" \in dom)
            /\ input' = ("messageInput" \in dom)
            /\ sendButton' = ("sendButton" \in dom)
       ELSE UNCHANGED << container, input, sendButton >>
    /\ IF Completes(3, raising)
       THEN resultsContainer' = ("resultsContent" \in dom)
       ELSE UNCHANGED resultsContainer

\* app.init() when the init of module `raising` raises
AppInitRaising(raising) ==
    /\ ~started
    /\ started' = TRUE
    /\ IF readyState = "loading"
       THEN /\ listener' = TRUE
            /\ UNCHANGED << initLog, refVars, statusVars, health, intervalTimer >>
       ELSE /\ InitializeModulesRaising(raising)
            /\ UNCHANGED listener
    /\ UNCHANGED << dom, readyState, chatVars, queries, resultVars, lastCall >>

\* the document has been parsed, when the init of module `raising` raises
DomContentLoadedRaising(raising) ==
    /\ readyState = "loading"
    /\ readyState' = "interactive"
    /\ listener' = FALSE
    /\ IF listener
       THEN InitializeModulesRaising(raising)
       ELSE UNCHANGED << initLog, refVars, statusVars, health, intervalTimer >>
    /\ UNCHANGED << dom, started, chatVars, queries, resultVars, lastCall >>

\* The page while no timer fires, with module inits that may raise: the
\* orchestrator, the first poll cycle, and a chat panel whose queries find
\* the backend unreachable.
NextOrchestrator ==
    \/ \E raising \in Raisings : AppInitRaising(raising)
    \/ \E raising \in Raisings : DomContentLoadedRaising(raising)
    \/ TypeInput(<< "h", "i" >>)
    \/ SendMessage
    \/ \E i \in DOMAIN queries : AskFetchRejects(i)
    \/ \E i \in DOMAIN health : HealthFetchRejects(i)
    \/ \E i \in DOMAIN health, status \in HealthStatuses :
          HealthFetchResolves(i, status)
    \/ \E i \in DOMAIN health : HealthBodyRejects(i)
    \/ \E i \in DOMAIN health, body \in HealthBodies : HealthBodyResolves(i, body)

SpecOrchestrator == Init /\ [][NextOrchestrator]_vars

\* --------------------------------------------- the renderer, called directly
SeqsUpTo(S, n) == UNION { [1..k -> S] : k \in 0..n }

AgeGroup == << "a", "g", "e", "_", "g", "r", "o", "u", "p" >>
Male == << "M", "a", "l", "e" >>
Selangor == << "S", "e", "l", "a", "n", "g", "o", "r" >>
Johor == << "J", "o", "h", "o", "r" >>

\* The plans of a response: up to MaxPlanLen entries under distinct keys, a
\* value being a text, the sentinel, or a text that differs from the
\* sentinel in case only.
PlanKeys == { Gender, State, AgeGroup }
PlanValues == { Str(Male), AnyValue, Str(<< "a", "n", "y" >>) }
Plans ==
    { plan \in SeqsUpTo(PlanKeys \X PlanValues, MaxPlanLen) :
        \A i, j \in DOMAIN plan : plan[i][1] = plan[j][1] => i = j }

\* The rows of a group: the dynamic field first, or the COUNT field first.
RowSelangor == << << State, Str(Selangor) >>, << CountKey, Num(9000) >> >>
RowJohor == << << State, Str(Johor) >>, << CountKey, Num(1234567) >> >>
RowCountFirst == << << CountKey, Num(5) >>, << State, Str(Johor) >> >>

\* The groups of an answer, and the answers: with or without a total, with
\* up to MaxGroups groups or none.
Groups ==
    { [label |-> << "B", "y", " ", "S", "t", "a", "t", "e" >>,
       data |-> << RowSelangor, RowJohor >>],
      [label |-> << "T", "o", "p" >>, data |-> << RowJohor, RowSelangor >>],
      [label |-> << "L", "a", "s", "t" >>, data |-> << RowCountFirst >>],
      [label |-> << "N", "o", "n", "e" >>, data |-> <<>>] }
GroupLists == SeqsUpTo(Groups, MaxGroups)

ResultBody(plan, answer) ==
    [error |-> None, plan |-> Some(plan), answer |-> Some(answer)]

\* The responses the renderer is called with: every plan next to the sample
\* answer, every group list next to the sample plan, and the bodies sendQuery
\* may return.
RenderBodies ==
    { ResultBody(plan, SampleAnswer) : plan \in Plans }
    \cup { ResultBody(SamplePlan, [total |-> None, groups |-> Some(groups)]) :
             groups \in GroupLists }
    \cup { ResultBody(SamplePlan, [total |-> Some(15000), groups |-> None]) }
    \cup { body \in AskBodies : ~Truthy(body.error) }

\* The keys handed to formatKey (every key of up to MaxKeyLen characters and
\* the keys of the sample plans) and the texts handed to escapeHtml, each as
\* the one entry of a plan.
KeyChars == { "a", "B", "1", "_", "-", "<" }
TextChars == { "a", "&", "<", ">", "\"", "'" }
PlanKeyTexts == SeqsUpTo(KeyChars, MaxKeyLen) \cup PlanKeys
Texts == SeqsUpTo(TextChars, MaxTextLen)
UtilBodies ==
    { ResultBody(<< << key, Str(Male) >> >>, [total |-> None, groups |-> None]) :
        key \in PlanKeyTexts }
    \cup { ResultBody(<< << State, Str(text) >> >>,
                      [total |-> None,
                       groups |-> Some(<< [label |-> text,
                                           data |-> << << << State, Str(text) >>,
                                                          << CountKey, Num(5) >> >> >>] >>)]) :
             text \in Texts }

\* ResultsModule.displayResults(data), called directly: it returns at once
\* without a container or a response, raises before it assigns innerHTML on
\* a response that lacks its plan or its answer, and renders otherwise
CallDisplayResults(data) ==
    /\ IF resultsContainer /\ IsSome(data) /\ RenderRaises(Get(data))
       THEN UNCHANGED resultVars
       ELSE DisplayResults(resultsContainer, data)
    /\ UNCHANGED << orchVars, refVars, chatVars, statusVars, queries, health,
                    intervalTimer, lastCall >>

\* The documents the renderer is loaded in: with and without its surface.
InitRenderer == InitIn({ ElementIds, ElementIds \ {"resultsContent"} })

\* The renderer under calls in any number and order, before and after the
\* modules are initialised.
NextRenderer ==
    \/ AppInit
    \/ DomContentLoaded
    \/ \E data \in {None} \cup { Some(body) : body \in RenderBodies } :
          CallDisplayResults(data)

SpecRenderer == InitRenderer /\ [][NextRenderer]_vars

\* The first rendering of a response on the complete page: the formatting
\* helpers applied to every key and every text.
InitUtils ==
    /\ Init
    /\ dom = ElementIds

NextUtils ==
    \/ AppInit
    \/ DomContentLoaded
    \/ \E body \in UtilBodies :
          displayed = None /\ CallDisplayResults(Some(body))

SpecUtils == InitUtils /\ [][NextUtils]_vars

\* ------------------------------------------------------------- properties
\* a sendQuery call whose request has not been settled
Outstanding(q) == q.phase \in { "fetch", "json" }
OutstandingQueries == { i \in DOMAIN queries : Outstanding(queries[i]) }

\* a text that holds white space only
IsBlank(s) == \A i \in DOMAIN s : s[i] \in WhiteSpace

\* a step that is a call of sendMessage or a key event
ChatCall == SendMessage \/ \E key \in Keys : HandleKeyPress(key)

\* C1: whatever the interleaving of sendMessage calls, key events, query
\* completions and the poll cycle, at most one sendQuery request of the chat
\* panel is outstanding, and the busy flag is true while one is.
C1_AtMostOneQueryOutstanding ==
    /\ Cardinality(OutstandingQueries) <= 1
    /\ OutstandingQueries # {} => isLoading

\* a second query is outstanding after the first was settled, a call was
\* refused meanwhile and the poll cycle is under way
C1_Witness ==
    /\ Len(queries) = 2
    /\ ~Outstanding(queries[1])
    /\ Outstanding(queries[2])
    /\ lastCall = "refused_busy"
    /\ Len(health) = 1
    /\ health[1].phase = "body"

\* C2: while the busy flag is true a sendMessage call or a key event appends
\* no message, issues no request, leaves the input text, the busy flag and the
\* status as they are.
C2_BusyCallsAreNoOps ==
    [][ (isLoading /\ ChatCall) =>
            UNCHANGED << messages, queries, inputValue, isLoading, inputDisabled,
                         buttonDisabled, buttonHtml, statusVars, health,
                         resultsHtml >> ]_vars

\* a call was refused while a query is outstanding and the input holds a text
C2_Witness ==
    /\ isLoading
    /\ lastCall = "refused_busy"
    /\ ~IsBlank(inputValue)
    /\ OutstandingQueries # {}

\* C3: once the query of an accepted sendMessage is settled, by a result, by a
\* failure of sendQuery or by a failure of the renderer, the busy flag is
\* false: it is true only while a query is outstanding.
C3_BusyOnlyWhileOutstanding == isLoading => OutstandingQueries # {}

\* sendQuery returned a body the renderer raised on, and the panel is idle
C3_Witness ==
    \E i \in DOMAIN queries :
        /\ queries[i].phase = "returned"
        /\ RenderRaises(Get(queries[i].data))
        /\ resultsContainer
        /\ ~isLoading
        /\ Len(messages) = 2 * i
        /\ messages[2 * i].content = ErrorPrefix \o RenderError.message

\* C4: a sendMessage call or key event on an input whose trimmed text is
\* empty appends no message, issues no request and does not set the busy flag.
C4_BlankInputIsNoOp ==
    [][ (IsBlank(inputValue) /\ ChatCall) =>
            UNCHANGED << messages, queries, isLoading >> ]_vars

\* a call on a non-empty input of white space was refused
C4_Witness ==
    /\ lastCall = "refused_empty"
    /\ inputValue # <<>>
    /\ IsBlank(inputValue)
    /\ ~isLoading

\* C5: checkHealth(n) never issues more than n + 1 requests, and when it
\* raises, every one of its n + 1 attempts has failed and the error raised is
\* the failure of the last attempt.
FaultError(fault) ==
    CASE fault = "network" -> NetworkError
      [] fault = "timeout" -> AbortError
      [] fault = "parse" -> ParseError
      [] OTHER -> HealthHttpError(503)

C5_ExactlyBudgetPlusOneAttempts ==
    \A i \in DOMAIN health :
        /\ health[i].requests <= health[i].budget + 1
        /\ health[i].phase = "raised" =>
              /\ health[i].requests = health[i].budget + 1
              /\ health[i].failed = health[i].budget + 1
              /\ health[i].error = Some(FaultError(health[i].fault))

\* a call with the default budget has raised after its fourth attempt timed out
C5_Witness ==
    \E i \in DOMAIN health :
        /\ health[i].budget = RETRY_ATTEMPTS
        /\ health[i].phase = "raised"
        /\ health[i].requests = RETRY_ATTEMPTS + 1
        /\ health[i].fault = "timeout"

\* C6: the attempts of one checkHealth call are sequential: a request is
\* outstanding only when every earlier one has failed, and an attempt after
\* the first starts only when RETRY_DELAY has passed since the failure before.
C6_AttemptsSequentialAfterDelay ==
    \A i \in DOMAIN health :
        /\ health[i].phase \in { "fetch", "body", "returned" } =>
              health[i].requests = health[i].failed + 1
        /\ health[i].phase \in { "delay", "raised" } =>
              health[i].requests = health[i].failed
        /\ (health[i].requests >= 2 /\ health[i].phase # "delay") =>
              health[i].waited >= RETRY_DELAY

\* the third attempt of a call is under way
C6_Witness ==
    \E i \in DOMAIN health :
        /\ health[i].requests = 3
        /\ health[i].phase = "fetch"
        /\ health[i].waited >= RETRY_DELAY

\* C7: checkHealth stops at the first attempt that succeeds: once a body was
\* parsed the call has returned that body, one request was issued per failed
\* attempt plus the successful one, and the rest of the budget is unused.
C7_StopsAtFirstSuccess ==
    \A i \in DOMAIN health :
        IsSome(health[i].body) =>
            /\ health[i].phase = "returned"
            /\ health[i].result = health[i].body
            /\ health[i].requests = health[i].failed + 1
            /\ health[i].requests <= health[i].budget + 1
            /\ health[i].retries = health[i].budget - health[i].failed

\* a call returned from its second attempt with budget left
C7_Witness ==
    \E i \in DOMAIN health :
        /\ health[i].phase = "returned"
        /\ health[i].requests = 2
        /\ health[i].retries > 0
        /\ health[i].result = Some("degraded")

\* C8: every attempt of checkHealth is ended by the abort timeout at the
\* latest, also while its response body is read: an abort timer is armed as
\* long as a request is outstanding.
C8_EveryAttemptTimeBounded ==
    \A i \in DOMAIN health :
        health[i].phase \in { "fetch", "body" } => health[i].abortTimer # NoTimer

\* C9: a sendQuery call issues one request and never a second one, and a
\* failure of that request has rejected the call.
C9_OneRequestPerQuery ==
    \A i \in DOMAIN queries :
        /\ queries[i].requests = 1
        /\ IsSome(queries[i].error) => queries[i].phase = "raised"

\* a sendQuery call was rejected by a failure of its only request
C9_Witness ==
    \E i \in DOMAIN queries :
        /\ queries[i].phase = "raised"
        /\ queries[i].error = Some(NetworkError)
        /\ queries[i].requests = 1

\* C10: for a 2xx response, a parsed body that carries an error field, whatever
\* its value, makes sendQuery raise that field's value and is never returned;
\* a body without an error field is returned unchanged.
C10_ErrorFieldAlwaysRaises ==
    \A i \in DOMAIN queries :
        IsSome(queries[i].body) =>
            IF IsSome(Get(queries[i].body).error)
            THEN /\ queries[i].phase = "raised"
                 /\ queries[i].data = None
                 /\ Get(queries[i].error).message = Get(Get(queries[i].body).error)
            ELSE /\ queries[i].phase = "returned"
                 /\ queries[i].data = queries[i].body

\* the indicator shows the entry of this status
StatusTexts ==
    [ online |-> "Backend Online", offline |-> "Backend Offline",
      checking |-> "Checking..." ]
Shows(status) ==
    /\ indicatorText = StatusTexts[status]
    /\ indicatorClass = "status-indicator status-" \o status

\* a health check that has neither returned nor raised
Pending(c) == c.phase \notin { "returned", "raised" }
\* this step starts a poll cycle
PollStarts ==
    /\ Len(health') = Len(health) + 1
    /\ health'[Len(health')].caller = "poller"
\* this step ends poll cycle i with its health check in this phase
PollEnds(i, phase) ==
    /\ health[i].caller = "poller"
    /\ Pending(health[i])
    /\ health'[i].phase = phase

\* C11: a poll cycle sets the status to checking when it starts and calls the
\* health check with the full retry budget; it sets online when the health
\* check returns and offline when it raises; and the status becomes online in
\* no step but the one in which the health check of a poll cycle returns.
C11_PollCycleSetsStatus ==
    [][ /\ PollStarts =>
              /\ Shows("checking")'
              /\ health'[Len(health')].budget = RETRY_ATTEMPTS
              /\ health'[Len(health')].phase = "fetch"
        /\ \A i \in DOMAIN health :
              /\ PollEnds(i, "returned") => Shows("online")'
              /\ PollEnds(i, "raised") => Shows("offline")'
        /\ (Shows("online")' /\ ~Shows("online")) =>
              \E i \in DOMAIN health :
                  PollEnds(i, "returned") /\ IsSome(health'[i].result)
      ]_vars

\* the second poll cycle found the backend online after the first one had
\* used up its retries and the chat panel had reported a failed query
C11_Witness ==
    /\ Len(health) = 2
    /\ health[1].phase = "raised"
    /\ health[2].phase = "returned"
    /\ Shows("online")
    /\ \E k \in DOMAIN messages : messages[k].sender = "bot"

\* C12: a health check that raises ends its poll cycle with the status
\* offline and with nothing else changed: the modules, the chat panel, the
\* other health checks and the interval timer are as before, the timer stays
\* armed, and when it is due after a failed cycle the next cycle starts.  The
\* initialisation that starts the first cycle goes on to arm the timer and to
\* initialise the other modules.
C12_PollerSwallowsFailures ==
    [][ /\ \A i \in DOMAIN health :
              PollEnds(i, "raised") =>
                  /\ Shows("offline")'
                  /\ UNCHANGED << orchVars, refVars, chatVars, queries,
                                  intervalTimer, resultsHtml, lastCall >>
                  /\ intervalTimer' \in 0..HEALTH_CHECK_INTERVAL
                  /\ \A j \in DOMAIN health \ {i} : health'[j] = health[j]
        /\ ( /\ \E i \in DOMAIN health :
                    health[i].caller = "poller" /\ health[i].phase = "raised"
             /\ intervalTimer = 0
             /\ intervalTimer' # intervalTimer ) => PollStarts
        /\ (initLog = <<>> /\ initLog' # <<>>) =>
              /\ PollStarts
              /\ initLog' = Modules
              /\ intervalTimer' = HEALTH_CHECK_INTERVAL
      ]_vars

\* a poll cycle is under way after the one before failed on a response body
\* that was not JSON
C12_Witness ==
    /\ Len(health) = 2
    /\ health[1].phase = "raised"
    /\ health[1].fault = "parse"
    /\ Shows("checking")
    /\ Pending(health[2])

\* the pairs of text and style class of the three-entry table
StatusTable ==
    { << StatusTexts[status], "status-indicator status-" \o status >> :
        status \in DOMAIN StatusTexts }

\* C13: the text and the style class of the indicator are either both as the
\* document served them or the pair of one entry of the table, and an
\* updateStatus call with a status outside the table changes neither.
C13_IndicatorShowsOneEntry ==
    [][ /\ \/ << indicatorText', indicatorClass' >> \in StatusTable
           \/ << indicatorText', indicatorClass' >> = << "", "" >>
        /\ \A status \in StatusArgs \ DOMAIN StatusTexts :
              CallUpdateStatus(status) => UNCHANGED statusVars
      ]_vars

\* the indicator shows the offline entry while the first poll cycle awaits
\* its request and no query was sent: an updateStatus('offline') call set it
C13_Witness ==
    /\ indicator
    /\ Shows("offline")
    /\ Len(health) = 1
    /\ health[1].phase = "fetch"
    /\ queries = <<>>

\* this step handles the end of query i, whose sendQuery call ended so
QueryEnds(i, phase) ==
    /\ Outstanding(queries[i])
    /\ queries'[i].phase = phase

\* C14: the chat panel writes the status only when a query round trip fails,
\* and then it forces offline: the step that handles a sendQuery call that
\* returned leaves the status as it is, the step that handles one that raised
\* leaves it offline, and sendMessage calls and key events do not touch it.
C14_ChatForcesOfflineOnFailureOnly ==
    [][ /\ \A i \in DOMAIN queries :
              /\ QueryEnds(i, "returned") => UNCHANGED statusVars
              /\ QueryEnds(i, "raised") => Shows("offline")'
        /\ ChatCall => UNCHANGED statusVars
      ]_vars

\* C15: the initialisation of the poller starts the first poll cycle and arms
\* the timer with HEALTH_CHECK_INTERVAL; from then on every second that
\* passes takes one second off the timer, no second passes while the timer is
\* due, the step that takes the timer off zero starts one poll cycle and arms
\* the timer with HEALTH_CHECK_INTERVAL again, and no other step starts a
\* poll cycle or touches the timer, whatever the state of the earlier cycles.
C15_PollEveryInterval ==
    [][ /\ (initLog = <<>> /\ initLog' # <<>>) =>
              /\ health = <<>>
              /\ PollStarts
              /\ intervalTimer' = HEALTH_CHECK_INTERVAL
        /\ (initLog # <<>> /\ PollerTick) =>
              /\ intervalTimer > 0
              /\ intervalTimer' = intervalTimer - 1
              /\ Len(health') = Len(health)
        /\ (initLog # <<>> /\ ~PollerTick) =>
              \/ /\ intervalTimer = 0
                 /\ PollStarts
                 /\ intervalTimer' = HEALTH_CHECK_INTERVAL
              \/ /\ intervalTimer' = intervalTimer
                 /\ Len(health') = Len(health)
      ]_vars

\* one second after the second poll cycle started, thirty seconds after the
\* first one, which found the backend online
C15_Witness ==
    /\ Len(health) = 2
    /\ health[1].phase = "returned"
    /\ intervalTimer = HEALTH_CHECK_INTERVAL - 1
    /\ Elapsed = HEALTH_CHECK_INTERVAL + 1

\* the poll cycles whose health check has neither returned nor raised
PendingPolls ==
    { i \in DOMAIN health : health[i].caller = "poller" /\ Pending(health[i]) }

\* C16: nothing keeps a poll cycle from starting while an earlier one is
\* pending: the step that takes the interval timer off zero starts a poll
\* cycle whatever the state of the earlier ones and leaves each of them as it
\* is, so that one more cycle is pending after it.
C16_NoMutualExclusion ==
    [][ (intervalTimer = 0 /\ intervalTimer' # 0) =>
            /\ PollStarts
            /\ \A i \in DOMAIN health : health'[i] = health[i]
            /\ PendingPolls' = PendingPolls \cup { Len(health') }
      ]_vars

\* the interval timer has just fired and started the second poll cycle while
\* the first one is still reading the body of the response to its request
C16_Witness ==
    /\ PendingPolls = { 1, 2 }
    /\ intervalTimer = HEALTH_CHECK_INTERVAL
    /\ health[1].phase = "body"
    /\ health[2].phase = "fetch"

\* this step handles a failure of query i in the catch block of sendMessage
ChatFails(i) ==
    \/ QueryEnds(i, "raised")
    \/ /\ QueryEnds(i, "returned")
       /\ resultsContainer
       /\ RenderRaises(Get(queries'[i].data))

\* the statuses this step writes: checking by a poll cycle that starts, online
\* or offline by one that ends, offline by the chat panel
Written ==
    (IF PollStarts THEN { "checking" } ELSE {})
    \cup (IF \E i \in DOMAIN health : PollEnds(i, "returned")
          THEN { "online" } ELSE {})
    \cup (IF \E i \in DOMAIN health : PollEnds(i, "raised")
          THEN { "offline" } ELSE {})
    \cup (IF \E i \in DOMAIN queries : ChatFails(i) THEN { "offline" } ELSE {})

\* C17: the status is last-write-wins: a step in which a poll cycle or the
\* chat panel writes a status leaves the indicator showing that status,
\* whatever it showed before and whoever wrote that, also while other cycles
\* or a query are pending; a step without a write leaves it as it is.
C17_LastWriteWins ==
    [][ /\ \A status \in Written : Shows(status)'
        /\ Written = {} => UNCHANGED statusVars
      ]_vars

\* the first poll cycle was pending while a query was sent and failed; the
\* chat panel forced offline, and the cycle then overwrote it with online
C17_Witness ==
    /\ Len(health) = 1
    /\ health[1].phase = "returned"
    /\ Len(queries) >= 1
    /\ queries[1].phase = "raised"
    /\ Shows("online")

\* C18: nothing but an answer of the backend ends a query: in every step that
\* leaves an outstanding query unanswered, a second that passes and a timer
\* that fires included, the busy flag is true before and after, no message is
\* appended, no request is issued, and a sendMessage call or key event is
\* refused or ignored without any effect on the chat panel.
C18_UnansweredQueryStaysBusy ==
    [][ \A i \in DOMAIN queries :
            (Outstanding(queries[i]) /\ queries'[i] = queries[i]) =>
                /\ isLoading
                /\ isLoading'
                /\ messages' = messages
                /\ queries' = queries
                /\ ChatCall =>
                      /\ lastCall' \in { "refused_busy", "key_ignored" }
                      /\ UNCHANGED chatVars
      ]_vars

\* more than an interval after the page started a query is unanswered, the
\* panel is busy with the user's message as its only one, and the latest call
\* was refused
C18_Witness ==
    /\ Len(queries) = 1
    /\ Outstanding(queries[1])
    /\ isLoading
    /\ Len(messages) = 1
    /\ lastCall = "refused_busy"
    /\ Elapsed > HEALTH_CHECK_INTERVAL

\* C19: the step that handles a sendQuery call that returned, when the
\* renderer does not raise, hands the whole parsed body to the renderer, whose
\* markup for it replaces the results, and appends one bot message with the
\* confirmation text; the results change in no other step, so the renderer
\* acts once per returned query and never for a sendQuery call that raised.
C19_SuccessRendersOnceThenConfirms ==
    [][ /\ \A i \in DOMAIN queries :
              /\ (QueryEnds(i, "returned") /\ ~ChatFails(i)) =>
                    /\ queries'[i].data = queries'[i].body
                    /\ resultsHtml' = RenderHtml(Get(queries'[i].data))
                    /\ messages' =
                          Append(messages,
                                 [content |-> ConfirmationText, sender |-> "bot"])
              /\ QueryEnds(i, "raised") => resultsHtml' = resultsHtml
        /\ (\A i \in DOMAIN queries : ~QueryEnds(i, "returned")) =>
              resultsHtml' = resultsHtml
      ]_vars

\* the second query returned a result after the first one had raised: the
\* results show its markup and the confirmation is the fourth message
C19_Witness ==
    /\ Len(queries) = 2
    /\ queries[1].phase = "raised"
    /\ queries[2].phase = "returned"
    /\ ~RenderRaises(Get(queries[2].data))
    /\ resultsHtml = RenderHtml(Get(queries[2].data))
    /\ resultsHtml # <<>>
    /\ Len(messages) = 4
    /\ messages[4] = [content |-> ConfirmationText, sender |-> "bot"]
    /\ messages[2].content # ConfirmationText

\* the message text of the failure that ended query i in this step: the text
\* of the error payload, of the parse failure, of the transport failure or of
\* the HTTP status
FailureTexts(i) ==
    IF IsSome(queries'[i].body) THEN { Get(Get(queries'[i].body).error) }
    ELSE IF queries[i].phase = "json" THEN { ParseError.message }
    ELSE { NetworkError.message }
         \cup { AskHttpError(status).message : status \in AskStatuses \ (200..299) }

\* C20: the step that handles a sendQuery call that raised, whatever the kind
\* of the failure, appends exactly one message: a bot message that ends with
\* the message text of the failure, unchanged; it is not the confirmation,
\* and the end of the step is the same for every kind: the status shows
\* offline, the panel is idle and the results are as before.
C20_FailureAppendsItsMessage ==
    [][ \A i \in DOMAIN queries :
            QueryEnds(i, "raised") =>
                /\ Len(messages') = Len(messages) + 1
                /\ \A k \in DOMAIN messages : messages'[k] = messages[k]
                /\ messages'[Len(messages')].sender = "bot"
                /\ \E text \in FailureTexts(i) :
                      messages'[Len(messages')].content = ErrorPrefix \o text
                /\ messages'[Len(messages')].content # ConfirmationText
                /\ ~isLoading'
                /\ Shows("offline")'
                /\ resultsHtml' = resultsHtml
      ]_vars

\* the backend answered a query with status 200 and the error payload "bad":
\* the bot message that follows the user's message carries that text
C20_Witness ==
    /\ Len(queries) = 1
    /\ queries[1].phase = "raised"
    /\ IsSome(queries[1].body)
    /\ Len(messages) = 2
    /\ messages[2] = [content |-> ErrorPrefix \o << "b", "a", "d" >>, sender |-> "bot"]

\* C21: the message sequence is append-only: every step leaves the messages
\* it finds in place and unchanged, so the sequence of any earlier state is a
\* prefix of the one of any later state, and every message is sent by the
\* user or by the bot.
C21_MessagesAppendOnly ==
    [][ /\ Len(messages') >= Len(messages)
        /\ \A k \in DOMAIN messages : messages'[k] = messages[k]
        /\ \A k \in DOMAIN messages' : messages'[k].sender \in { "user", "bot" }
      ]_vars

\* two queries were sent and answered, the first with a failure: the four
\* messages are in the order in which they were appended
C21_Witness ==
    /\ Len(messages) = 4
    /\ Len(queries) = 2
    /\ messages[1] = [content |-> queries[1].text, sender |-> "user"]
    /\ messages[2].sender = "bot"
    /\ messages[2].content # ConfirmationText
    /\ messages[3] = [content |-> queries[2].text, sender |-> "user"]
    /\ messages[4] = [content |-> ConfirmationText, sender |-> "bot"]

\* C22: the renderer keeps nothing between calls.  Whenever the surface shows
\* a rendering, it is the markup of the response rendered last and of nothing
\* else, whatever was shown before; and a step in which no rendering
\* completes (no surface attached, no response given) leaves the surface as
\* it was.
C22_RendererStateless ==
    [][ /\ IsSome(displayed') => resultsHtml' = RenderHtml(Get(displayed'))
        /\ ~resultsContainer => resultVars' = resultVars
        /\ displayed' = displayed => resultsHtml' = resultsHtml
      ]_vars

\* a rendering of the total-only response is on the surface
C22_Witness ==
    /\ resultsContainer
    /\ displayed = Some(ResultBody(SamplePlan, [total |-> Some(15000), groups |-> None]))
    /\ Len(resultsHtml) = 2
    /\ resultsHtml[1] = [block |-> "total", text |-> << "1", "5", ",", "0", "0", "0" >>]
    /\ resultsHtml[2].block = "plan"

\* the blocks of this kind on the results surface
Blocks(kind) == SelectSeq(resultsHtml, LAMBDA b : b.block = kind)
\* the response on the surface, once one was rendered
Rendered == IsSome(displayed) /\ resultsContainer
\* the positions of the plan entries whose value is not the sentinel
Shown(plan) == { i \in DOMAIN plan : plan[i][2].v # << "A", "n", "y" >> }
\* the position of the k-th such entry
ShownAt(plan, k) ==
    CHOOSE i \in Shown(plan) : Cardinality({ j \in Shown(plan) : j <= i }) = k

\* C23: the search-parameters block of a rendered response holds exactly one
\* entry for each plan entry whose value is not "Any", none for the others,
\* in the order of the plan: its k-th entry shows the key and the value of
\* the k-th plan entry that is not "Any".
C23_PlanCardSkipsAny ==
    Rendered =>
        LET plan == Get(Get(displayed).plan)
            cards == Blocks("plan")
        IN  /\ Len(cards) = 1
            /\ Len(cards[1].items) = Cardinality(Shown(plan))
            /\ \A k \in DOMAIN cards[1].items :
                   /\ cards[1].items[k].label = FormatKey(plan[ShownAt(plan, k)][1])
                   /\ cards[1].items[k].value =
                          EscapeHtml(plan[ShownAt(plan, k)][2].v)

\* the plan {gender: "Male", state: "Any"} is rendered as the one entry
\* Gender: Male
C23_Witness ==
    /\ Rendered
    /\ Get(displayed).plan =
          Some(<< << Gender, Str(Male) >>, << State, AnyValue >> >>)
    /\ Blocks("plan")[1].items =
          << [label |-> << "G", "e", "n", "d", "e", "r" >>, value |-> Male] >>

\* the value of the dynamic field of a row: the field that is not COUNT
DynamicValue(item) ==
    item[CHOOSE i \in DOMAIN item : item[i][1] # CountKey][2]
\* the value of the COUNT field of a row
CountValue(item) ==
    item[CHOOSE i \in DOMAIN item : item[i][1] = CountKey][2]

\* C24: the breakdown block of a rendered response with groups holds the
\* groups in input order and in each group one row per input row, in input
\* order, each row showing the value of the field that is not COUNT next to
\* the formatted COUNT, wherever the COUNT field stands in the row.
C24_BreakdownShowsDynamicField ==
    (Rendered /\ IsSome(Get(displayed).answer)
              /\ IsSome(Get(Get(displayed).answer).groups)
              /\ Get(Get(displayed).answer).groups # Some(<<>>)) =>
        LET groups == Get(Get(Get(displayed).answer).groups)
            cards == Blocks("groups")
        IN  /\ Len(cards) = 1
            /\ Len(cards[1].groups) = Len(groups)
            /\ \A g \in DOMAIN groups :
                   /\ cards[1].groups[g].title = EscapeHtml(groups[g].label)
                   /\ Len(cards[1].groups[g].rows) = Len(groups[g].data)
                   /\ \A r \in DOMAIN groups[g].data :
                          /\ cards[1].groups[g].rows[r].value =
                                 EscapeHtml(ToText(DynamicValue(groups[g].data[r])))
                          /\ cards[1].groups[g].rows[r].count =
                                 FormatNumber(CountValue(groups[g].data[r]).v)

\* the text of the first plan entry of the rendered response, and the
\* value cell it is rendered into
PlanText == Get(Get(displayed).plan)[1][2].v
PlanCell == Blocks("plan")[1].items[1].value
\* the number of these characters in a text
Count(text, chars) == Cardinality({ i \in DOMAIN text : text[i] \in chars })

\* C25: escapeHtml replaces each of the characters & < > " ' of its input by
\* an escape: the output holds no literal < > " or ', and one & for each of
\* the five characters of the input.
C25_EscapesFiveCharacters ==
    (Rendered /\ Get(Get(displayed).plan) # <<>>) =>
        /\ Count(PlanCell, { "<", ">", "\"", "'" }) = 0
        /\ Count(PlanCell, { "&" }) = Count(PlanText, { "&", "<", ">", "\"", "'" })

\* the key of the first plan entry of the rendered response, and the label
\* it is rendered into
PlanKey == Get(Get(displayed).plan)[1][1]
PlanLabel == Blocks("plan")[1].items[1].label
\* a letter or a digit
IsAlnum(c) ==
    c \in Range(LowerLetters) \cup Range(UpperLetters) \cup Range(DigitChars)
\* a position where a word of the key starts: a letter or digit that follows
\* no letter or digit
StartsWord(key, i) == IsAlnum(key[i]) /\ (i = 1 \/ ~IsAlnum(key[i - 1]))

\* C26: formatKey gives a text as long as the key, in which every underscore
\* is a space, the first character of each word is upper-cased and every
\* other character is the one of the key; "age_group" gives "Age Group" and
\* "state" gives "State".
C26_FormatKeyTitleCases ==
    (Rendered /\ Get(Get(displayed).plan) # <<>>) =>
        /\ Len(PlanLabel) = Len(PlanKey)
        /\ \A i \in DOMAIN PlanKey :
               PlanLabel[i] = IF PlanKey[i] = "_" THEN " "
                              ELSE IF StartsWord(PlanKey, i)
                                   THEN ToUpperCase(PlanKey[i])
                                   ELSE PlanKey[i]
        /\ PlanKey = AgeGroup =>
               PlanLabel = << "A", "g", "e", " ", "G", "r", "o", "u", "p" >>
        /\ PlanKey = State => PlanLabel = << "S", "t", "a", "t", "e" >>

\* the key age_group is rendered as Age Group
C26_Witness ==
    /\ Rendered
    /\ Get(displayed).plan = Some(<< << AgeGroup, Str(Male) >> >>)
    /\ PlanLabel = << "A", "g", "e", " ", "G", "r", "o", "u", "p" >>

MessagesOf(sender) == SelectSeq(messages, LAMBDA m : m.sender = sender)

\* C28: the messages alternate user, bot, user, bot, ..., starting with a
\* user message; there is one user message more than bot messages exactly
\* while a query is outstanding, which is exactly while the panel is busy,
\* and as many of both otherwise.
C28_MessagesAlternate ==
    /\ \A k \in DOMAIN messages :
           messages[k].sender = IF k % 2 = 1 THEN "user" ELSE "bot"
    /\ isLoading <=> OutstandingQueries # {}
    /\ Len(MessagesOf("user")) - Len(MessagesOf("bot")) =
           IF isLoading THEN 1 ELSE 0

\* the first send was answered by a failure and the second is under way
C28_Witness ==
    /\ isLoading
    /\ Len(queries) = 2
    /\ queries[1].phase = "raised"
    /\ Outstanding(queries[2])
    /\ Len(MessagesOf("user")) = 2
    /\ Len(MessagesOf("bot")) = 1

\* C29: there are as many query requests as user messages, and the k-th
\* request carries the content of the k-th user message, which is the
\* trimmed input.
C29_RequestsMatchUserMessages ==
    /\ Len(queries) = Len(MessagesOf("user"))
    /\ \A k \in DOMAIN queries :
           /\ queries[k].requests = 1
           /\ queries[k].text = MessagesOf("user")[k].content
           /\ \E text \in InputTexts : \E i, j \in DOMAIN text :
                  /\ queries[k].text = SubSeq(text, i, j)
                  /\ text[i] \notin WhiteSpace
                  /\ text[j] \notin WhiteSpace
                  /\ \A n \in DOMAIN text :
                         (n < i \/ n > j) => text[n] \in WhiteSpace

\* two requests were issued, for " hi " and for "a b"
C29_Witness ==
    /\ Len(queries) = 2
    /\ queries[1].text = << "h", "i" >>
    /\ queries[2].text = << "a", " ", "b" >>
    /\ MessagesOf("user") =
          << [content |-> << "h", "i" >>, sender |-> "user"],
             [content |-> << "a", " ", "b" >>, sender |-> "user"] >>

\* C30: a step in which sendMessage ends on its failure path (sendQuery
\* raised, or the renderer raised on a response without plan or answer)
\* leaves the results surface as it was; the surface changes only in a step
\* in which a query returned and displayResults rendered its response.
C30_FailureKeepsResults ==
    [][ /\ \A i \in DOMAIN queries : ChatFails(i) => resultVars' = resultVars
        /\ resultsHtml' # resultsHtml =>
               \E i \in DOMAIN queries :
                   /\ QueryEnds(i, "returned")
                   /\ ~ChatFails(i)
                   /\ displayed' = queries'[i].data
      ]_vars

\* the first query was rendered and the second made the renderer raise:
\* the surface still shows the rendering of the first
C30_Witness ==
    /\ Len(queries) = 2
    /\ queries[1].phase = "returned"
    /\ queries[2].phase = "returned"
    /\ RenderRaises(Get(queries[2].data))
    /\ ~isLoading
    /\ displayed = queries[1].data
    /\ resultsHtml # <<>>
    /\ messages[4].content # ConfirmationText

\* C31: every text of the response that stands in the rendered output went
\* through escapeHtml: the label of a plan entry is the escaped formatted
\* key, its value cell the escaped value, the title of a group the escaped
\* label, and the value cell of a row the escaped value of the row's field.
C31_BackendTextEscaped ==
    (Rendered /\ Get(Get(displayed).plan) # <<>>) =>
        LET answer == Get(Get(displayed).answer)
            groups == IF IsSome(answer.groups) THEN Get(answer.groups) ELSE <<>>
        IN  /\ PlanLabel = EscapeHtml(FormatKey(PlanKey))
            /\ PlanCell = EscapeHtml(PlanText)
            /\ groups # <<>> =>
                   \A g \in DOMAIN groups :
                       /\ Blocks("groups")[1].groups[g].title =
                              EscapeHtml(groups[g].label)
                       /\ \A r \in DOMAIN groups[g].data :
                              Blocks("groups")[1].groups[g].rows[r].value =
                                 EscapeHtml(ToText(groups[g].data[r][1][2]))

====
